---- MODULE Spec2Model ----
(***************************************************************************)
(* A model of wave2data: the AXIStream stream decoder (decoder.py), the    *)
(* keep compaction of AXISPacket (decoder.py), the packet iteration and    *)
(* the driver loop with one and with several decoders (decoder.py,         *)
(* wavedecoder.py), the AvalonStream decoder (decoder.py), the VCD sample  *)
(* iteration and the Signal values (input.py, wave.py) and the TLP overlay *)
(* (protocol.py).                                                          *)
(*                                                                         *)
(* Python values are tagged records; a bytes value is a sequence of the    *)
(* byte values 0..255, a sample timestamp is tick * timeval with an        *)
(* integer timeval (the source multiplies the tick by a float timescale,   *)
(* which is monotone in the tick the same way).                            *)
(***************************************************************************)
EXTENDS Integers, Sequences, FiniteSets, TLC

VARIABLES
    \* ---- AXIStream decoder (decoder.py) ----
    cfg,            \* the role bindings self.names, keep_mode and the signal widths
    lastvalues,     \* self.lastvalues: <<>> is None, <<d>> is the dict d
    packet,         \* self.packet: <<>> is None, <<p>> is the AXISPacket p
    beats,          \* self.beats
    backpreasure,   \* self.backpreasure
    result,         \* outcome of the latest decode call
    sample,         \* the Sample handed to the latest decode call
    nsamples,       \* number of Samples taken from the wave input so far
    hist,           \* observer: facts about the samples seen, kept apart from the decoder
    \* ---- packet iteration and driver loop ----
    loop,           \* how decode is driven, and the state of the generator / the driver
    \* ---- SHIFT / MASK compaction as a function ----
    kin,            \* input of _normalize_keep: data, keep, keep_mode
    kout,           \* its outcome
    \* ---- VCD input (input.py, wave.py) ----
    signals,        \* self.signals: the tracked Signal values
    updated,        \* the local flag of VCDWaveInput.__iter__
    timeval,        \* self.timeval
    emitted,        \* the timestamps of the Samples yielded so far
    vhist,          \* observer of the token stream
    \* ---- several decoders on one wave input ----
    multi,          \* the decoders, the current Sample and who has yet to decode it
    \* ---- Signal.set_bit / Signal.clr_bit as functions ----
    bits,           \* a Signal value, a bit index and the values after set and clear
    \* ---- TLP overlay (protocol.py) ----
    tlp,            \* the Packet handed to TLPAXIStreamAgilex5E and what came of it
    \* ---- declaration phase of the VCD input (input.py) ----
    header          \* the scope prefix and the Signal table _create_signals builds

decvars == <<cfg, lastvalues, packet, beats, backpreasure, result, sample, nsamples, hist, loop>>
keepvars == <<kin, kout>>
vcdvars == <<signals, updated, timeval, emitted, vhist>>
restvars == <<multi, bits, tlp, header>>
vars == <<cfg, lastvalues, packet, beats, backpreasure, result, sample, nsamples, hist,
          loop, kin, kout, signals, updated, timeval, emitted, vhist, multi, bits, tlp, header>>

(***************************************************************************)
(* Bounds of the model.                                                    *)
(***************************************************************************)
MaxSamples == 4
MaxTokens == 6
MaxTick == 3

(***************************************************************************)
(* Python values.                                                          *)
(***************************************************************************)
PyNone == [t |-> "None"]
PyBool(x) == [t |-> "bool", b |-> x]
PyInt(i) == [t |-> "int", n |-> i]
PyBytes(q) == [t |-> "bytes", s |-> q]

\* Python truth value: None, False, 0 and b"" are falsy.
Truthy(v) ==
    CASE v.t = "None" -> FALSE
      [] v.t = "bool" -> v.b
      [] v.t = "int" -> v.n # 0
      [] v.t = "bytes" -> Len(v.s) > 0

Pow2(n) == 2 ^ n

\* bit x of the byte k: k & (1 << x) != 0
BitSet(k, x) == (k \div Pow2(x)) % 2 = 1

\* int.to_bytes(n, 'big') of a non-negative m below 256^n
RECURSIVE ToBytes(_, _)
ToBytes(m, n) == IF n = 0 THEN <<>> ELSE Append(ToBytes(m \div 256, n - 1), m % 256)

\* int.from_bytes(q, 'big')
RECURSIVE FromBytes(_)
FromBytes(q) ==
    IF Len(q) = 0 THEN 0 ELSE 256 * FromBytes(SubSeq(q, 1, Len(q) - 1)) + q[Len(q)]

\* The all-zero value of a Signal of `length` bits.
InitValue(length) ==
    IF length > 1 THEN PyBytes(ToBytes(0, (length + 8 - 1) \div 8)) ELSE PyBool(FALSE)

\* The value a Signal of `length` bits holds when its bits spell the number m.
SignalValue(length, m) ==
    IF length > 1 THEN PyBytes(ToBytes(m, (length + 8 - 1) \div 8)) ELSE PyBool(m # 0)

(***************************************************************************)
(* AXISPacket._normalize_keep                                              *)
(***************************************************************************)
\* data[:idx] + data[idx+1:] for a 0-based idx >= 0 (a slice past the end is empty)
DeleteAt(q, idx) ==
    SubSeq(q, 1, IF idx < Len(q) THEN idx ELSE Len(q)) \o SubSeq(q, idx + 2, Len(q))

\* The two nested loops of the SHIFT branch, at keep byte bidx (0-based) and bit x.
RECURSIVE ShiftLoop(_, _, _, _)
ShiftLoop(q, keep, bidx, x) ==
    IF bidx < 0 THEN q
    ELSE IF x > 7 THEN ShiftLoop(q, keep, bidx - 1, 0)
    ELSE LET idx == bidx * 8 + (7 - x)
             val == BitSet(keep[bidx + 1], x)
         IN  ShiftLoop(IF ~val THEN DeleteAt(q, idx) ELSE q, keep, bidx, x + 1)

Returned(q) == [err |-> "none", out |-> q]
Raised(e) == [err |-> e, out |-> <<>>]

\* assert len(keep) * 8 == len(data)
KeepLengthsAgree(keepLen, dataLen) == keepLen * 8 = dataLen

\* data is a byte sequence, keep a Python value, mode a KeepHandling name.
NormalizeKeep(data, keep, mode) ==
    IF ~Truthy(keep) THEN Returned(data)
    ELSE IF mode = "MASK" THEN Raised("NotImplementedError")
    ELSE IF mode = "SHIFT" THEN
        IF keep.t # "bytes" THEN Raised("TypeError")   \* len() of a bool
        ELSE IF ~KeepLengthsAgree(Len(keep.s), Len(data)) THEN Raised("AssertionError")
        ELSE Returned(ShiftLoop(data, keep.s, Len(keep.s) - 1, 0))
    ELSE Returned(data)

(***************************************************************************)
(* The decoder configuration: WaveDecoder.__create_signals binds each role *)
(* to a signal name or leaves it None.  last, keep and clk are optional    *)
(* (their default pattern is None); valid, ready and data have a default   *)
(* pattern and stay None only when the pattern matches no signal: unbound  *)
(* is the set of those.  width is the data width in bytes; the keep signal *)
(* carries one bit per byte lane.                                          *)
(***************************************************************************)
KeepModes == {"NONE", "MASK", "SHIFT"}
Widths == {1, 4, 8}

\* Every binding of the optional roles; the three widths under SHIFT, the
\* default mode, and a four-byte bus under the other modes or without keep.
Configs ==
    { c \in [last : BOOLEAN, keep : BOOLEAN, clk : BOOLEAN,
             keep_mode : KeepModes, width : Widths, unbound : {{}}] :
        (~c.keep \/ c.keep_mode # "SHIFT") => c.width = 4 }

\* Two data words of `width` bytes; the first is aa bb cc dd ... .
DataWords(width) ==
    { PyBytes([i \in 1..width |-> (153 + 17 * i) % 256]),
      PyBytes([i \in 1..width |-> i]) }

\* Two qualifier values for `width` lanes: all lanes, and the upper half only
\* (width 1: the lane kept or not).
KeepWords(width) ==
    IF width = 1 THEN { PyBool(TRUE), PyBool(FALSE) }
    ELSE { SignalValue(width, Pow2(width) - 1),
           SignalValue(width, Pow2(width) - Pow2(width \div 2)) }

\* The values a Sample can carry for the signals a decoder of configuration c
\* reads: values[name] = sample.signals[key].value, or None for an unbound role.
\* While valid is low ready and the payload signals (data, keep, last) are
\* enumerated at one value only: the decoder stores them but never reads them
\* back, because handshake_decode looks at the stored ready and compares
\* against the stored payload only when the stored valid is set.
SampleValues(c) ==
    LET level(role) == IF role \in c.unbound THEN {PyNone}
                       ELSE {PyBool(TRUE), PyBool(FALSE)}
        all == [valid : level("valid"),
                ready : level("ready"),
                last  : IF c.last THEN {PyBool(TRUE), PyBool(FALSE)} ELSE {PyNone},
                data  : IF "data" \in c.unbound THEN {PyNone} ELSE DataWords(c.width),
                keep  : IF c.keep THEN KeepWords(c.width) ELSE {PyNone},
                clk   : IF c.clk THEN {PyBool(TRUE), PyBool(FALSE)} ELSE {PyNone}]
        idleData == PyBytes([i \in 1..c.width |-> i])
        idleKeep == IF c.keep THEN SignalValue(c.width, Pow2(c.width) - 1) ELSE PyNone
        idleLast == IF c.last THEN PyBool(FALSE) ELSE PyNone
        idleReady == IF "ready" \in c.unbound THEN PyNone ELSE PyBool(FALSE)
    IN  { v \in all : v.valid = PyBool(FALSE) =>
                        /\ v.ready = idleReady
                        /\ v.data = idleData /\ v.keep = idleKeep /\ v.last = idleLast }

\* Sample number n (1, 2, ...) of a trace: timestamps 0, 10, 20, ...
TimestampOf(n) == (n - 1) * 10

(***************************************************************************)
(* StreamDecoder.handshake_decode: the checks against the previous values. *)
(***************************************************************************)
\* handshake_decode without the check that valid is held: the rest is the same.
HandshakeErrorNoDrop(values, lv) ==
    IF Truthy(lv.valid) /\ ~Truthy(lv.ready) THEN
        IF lv.data # values.data THEN "data changed while valid but not ready"
        ELSE IF (lv.keep # PyNone /\ values.keep # PyNone) /\ lv.keep # values.keep
             THEN "keep changed while valid but not ready"
        ELSE "none"
    ELSE "none"

\* handshake_decode without the check that keep is held: the rest is the same.
HandshakeErrorNoKeep(values, lv) ==
    IF Truthy(lv.valid) /\ ~Truthy(lv.ready) THEN
        IF ~Truthy(values.valid) THEN "valid dropped while not ready"
        ELSE IF lv.data # values.data THEN "data changed while valid but not ready"
        ELSE "none"
    ELSE "none"

HandshakeError(values, lv) ==
    IF Truthy(lv.valid) /\ ~Truthy(lv.ready) THEN
        IF ~Truthy(values.valid) THEN "valid dropped while not ready"
        ELSE IF lv.data # values.data THEN "data changed while valid but not ready"
        ELSE IF (lv.keep # PyNone /\ values.keep # PyNone) /\ lv.keep # values.keep
             THEN "keep changed while valid but not ready"
        ELSE "none"
    ELSE "none"

\* if values['valid'] and not values['ready']: self.backpreasure += 1
Stalled(values) == Truthy(values.valid) /\ ~Truthy(values.ready)

\* Returning True on valid alone.
TransfersOnValid(values) == Truthy(values.valid)

\* return True iff values['valid'] and values['ready']
Transfers(values) == Truthy(values.valid) /\ Truthy(values.ready)

(***************************************************************************)
(* Packet / AXISPacket                                                     *)
(***************************************************************************)
\* AXISPacket(name, starttime, keep_mode, data, keep, datawidth): the dataclass
\* defaults and __post_init__, which may raise out of _normalize_keep.
NewPacket(timestamp, data, keep, mode, width) ==
    LET n == NormalizeKeep(data.s, keep, mode)
    IN  IF n.err # "none" THEN [err |-> n.err, pkt |-> <<>>]
        ELSE [err |-> "none",
              pkt |-> <<[starttime |-> timestamp, endtime |-> PyNone,
                         data |-> data.s, datawidth |-> 8 * width,
                         keep |-> keep, beats |-> 0, backpreasure |-> 0,
                         keep_mode |-> mode, normdata |-> n.out]>>]

\* Python's a + b for the operand types self.keep += keep can meet.
PyAdd(a, b) ==
    IF a.t = "bytes" /\ b.t = "bytes" THEN PyBytes(a.s \o b.s)
    ELSE LET num(v) == IF v.t = "int" THEN v.n ELSE IF v.b THEN 1 ELSE 0
         IN  PyInt(num(a) + num(b))

\* Packet.add: self.data += data; if endtime: self.endtime = endtime
PacketAdd(p, data, endtime) ==
    [p EXCEPT !.data = p.data \o data.s,
              !.endtime = IF endtime # 0 THEN PyInt(endtime) ELSE p.endtime]

\* AXISPacket.add(data, keep, endtime)
AXISPacketAdd(p, data, keep, endtime) ==
    LET n == NormalizeKeep(data.s, keep, p.keep_mode)
    IN  IF n.err # "none" THEN [err |-> n.err, pkt |-> <<p>>]
        ELSE LET p1 == [p EXCEPT !.normdata = p.normdata \o n.out]
                 p2 == PacketAdd(p1, data, endtime)
                 p3 == IF Truthy(keep) /\ Truthy(p2.keep)
                       THEN [p2 EXCEPT !.keep = PyAdd(p2.keep, keep)]
                       ELSE p2
             IN  [err |-> "none", pkt |-> <<p3>>]

(***************************************************************************)
(* AXIStream.decode                                                        *)
(***************************************************************************)
\* if values['clk'] is not None: if not values['clk'] or lastvalues['clk']: skip
ClockSkips(values, lv) ==
    values.clk # PyNone /\ (~Truthy(values.clk) \/ Truthy(lv.clk))

\* Sealing on every transferring beat, whatever last says.
TerminatesAlways(values) == TRUE

\* if values['last'] is None or values['last']: seal
Terminates(values) == values.last = PyNone \/ Truthy(values.last)

\* A decoder that abandons the frame in progress when it raises StreamError.
OutcomeDropsFrame(d, kind, pkt) ==
    [lastvalues |-> d.lastvalues,
     packet |-> IF kind = "StreamError" THEN <<>> ELSE d.packet,
     beats |-> IF kind = "StreamError" THEN 0 ELSE d.beats,
     backpreasure |-> IF kind = "StreamError" THEN 0 ELSE d.backpreasure,
     result |-> [kind |-> kind, pkt |-> pkt]]

\* The decoder state after decode(sample) and what the call returned or raised.
\* d is [lastvalues, packet, beats, backpreasure]; the result adds `result`.
Outcome(d, kind, pkt) ==
    [lastvalues |-> d.lastvalues, packet |-> d.packet, beats |-> d.beats,
     backpreasure |-> d.backpreasure, result |-> [kind |-> kind, pkt |-> pkt]]

AXIStreamDecode(c, d, smp) ==
    LET values == smp.v
        \* on the first call self.lastvalues becomes the very dict being filled
        lv == IF d.lastvalues = <<>> THEN values ELSE d.lastvalues[1]
    IN
    IF ClockSkips(values, lv)
    THEN Outcome([d EXCEPT !.lastvalues = <<[lv EXCEPT !.clk = values.clk]>>], "None", <<>>)
    ELSE
    LET d1 == [d EXCEPT !.lastvalues = <<values>>]
        herr == HandshakeError(values, lv)
    IN
    IF herr # "none" THEN Outcome(d1, "StreamError", <<>>)
    ELSE
    LET d2 == [d1 EXCEPT !.backpreasure = IF Stalled(values) THEN @ + 1 ELSE @]
    IN
    IF ~Transfers(values) THEN Outcome(d2, "None", <<>>)
    ELSE
    LET d3 == [d2 EXCEPT !.beats = @ + 1]
        made == IF d3.packet = <<>> /\ "data" \in c.unbound
                THEN \* sample.signals[self.data]: the attribute was never set
                     [err |-> "AttributeError", pkt |-> <<>>]
                ELSE IF d3.packet = <<>>
                THEN NewPacket(smp.timestamp, values.data, values.keep, c.keep_mode, c.width)
                ELSE AXISPacketAdd(d3.packet[1], values.data, values.keep, smp.timestamp)
    IN
    IF made.err # "none" THEN Outcome(d3, made.err, <<>>)
    ELSE
    LET d4 == [d3 EXCEPT !.packet = made.pkt]
    IN
    IF Terminates(values)
    THEN LET temp == [d4.packet[1] EXCEPT !.beats = d4.beats,
                                          !.backpreasure = d4.backpreasure]
         IN  Outcome([d4 EXCEPT !.beats = 0, !.backpreasure = 0, !.packet = <<>>],
                     "Packet", <<temp>>)
    ELSE Outcome(d4, "None", <<>>)

(***************************************************************************)
(* The observer: what an onlooker of the Sample stream and of the calls'   *)
(* outcomes records, without reading the decoder's fields.                 *)
(***************************************************************************)
HistInit ==
    [processed |-> FALSE,   \* the latest sample was on a rising clock edge (or no clk role)
     prevclk   |-> PyNone,  \* clk of the latest sample
     laststall |-> FALSE,   \* the latest processed sample had valid=1, ready=0
     prevstall |-> FALSE,   \* the processed sample before that one had valid=1, ready=0
     sealed    |-> FALSE,   \* the latest call returned a Packet
     violated  |-> FALSE,   \* some call so far raised a StreamError
     dropped   |-> FALSE,   \* some processed sample had valid=0 right after a stalled one
     xfer      |-> 0,       \* transferring beats since the previous returned Packet
     xfirst    |-> PyNone,  \* timestamp of the first of them
     xdata     |-> <<>>,    \* their data, concatenated in arrival order
     stall     |-> 0,       \* n: all n samples so far had valid=1, ready=0, same data; else -1
     stallprev |-> 0,       \* the value of stall before the latest sample
     stalldata |-> PyNone,  \* the data of those samples
     held      |-> PyNone,  \* data and keep of the latest processed sample if it stalled
     prevheld  |-> PyNone]  \* the value of held before the latest processed sample

\* A rising edge: the previous sample's clk was falsy and this one's is truthy.
RisingEdge(h, smp) == h.prevclk = PyBool(FALSE) /\ smp.v.clk = PyBool(TRUE)

HistAfter(h, c, smp, kind) ==
    LET processed == ~c.clk \/ RisingEdge(h, smp)
        xferNow == processed /\ smp.v.valid = PyBool(TRUE) /\ smp.v.ready = PyBool(TRUE)
        stallNow == smp.v.valid = PyBool(TRUE) /\ smp.v.ready = PyBool(FALSE)
        xfer0 == IF h.sealed THEN 0 ELSE h.xfer
        xfirst0 == IF h.sealed THEN PyNone ELSE h.xfirst
        xdata0 == IF h.sealed THEN <<>> ELSE h.xdata
        isStall == stallNow /\ (h.stall = 0 \/ smp.v.data = h.stalldata)
    IN  [processed |-> processed,
         prevclk   |-> smp.v.clk,
         laststall |-> IF processed THEN stallNow ELSE h.laststall,
         prevstall |-> IF processed THEN h.laststall ELSE h.prevstall,
         sealed    |-> kind = "Packet",
         violated  |-> h.violated \/ kind = "StreamError",
         dropped   |-> h.dropped \/
                       (processed /\ h.laststall /\ smp.v.valid = PyBool(FALSE)),
         xfer      |-> xfer0 + (IF xferNow THEN 1 ELSE 0),
         xfirst    |-> IF xferNow /\ xfer0 = 0 THEN PyInt(smp.timestamp) ELSE xfirst0,
         xdata     |-> IF xferNow /\ smp.v.data.t = "bytes"
                       THEN xdata0 \o smp.v.data.s ELSE xdata0,
         stall     |-> IF h.stall >= 0 /\ isStall THEN h.stall + 1 ELSE -1,
         stallprev |-> h.stall,
         stalldata |-> IF h.stall = 0 THEN smp.v.data ELSE h.stalldata,
         held      |-> IF ~processed THEN h.held
                       ELSE IF stallNow THEN [t |-> "held", data |-> smp.v.data,
                                              keep |-> smp.v.keep]
                       ELSE PyNone,
         prevheld  |-> IF processed THEN h.held ELSE h.prevheld]

(***************************************************************************)
(* Direct decoding: decode(sample) is called once per Sample.              *)
(***************************************************************************)
DecoderState == [lastvalues |-> lastvalues, packet |-> packet, beats |-> beats,
                 backpreasure |-> backpreasure]

NoSample == [timestamp |-> 0, v |-> [valid |-> PyNone, ready |-> PyNone, last |-> PyNone,
                                     data |-> PyNone, keep |-> PyNone, clk |-> PyNone]]

\* StreamDecoder.__post_init__
InitDecoder(configs) ==
    /\ cfg \in configs
    /\ lastvalues = <<>>
    /\ packet = <<>>
    /\ beats = 0
    /\ backpreasure = 0
    /\ result = [kind |-> "init", pkt |-> <<>>]
    /\ sample = NoSample
    /\ nsamples = 0
    /\ hist = HistInit

IdleKeep ==
    /\ kin = [data |-> <<>>, keep |-> PyNone, mode |-> "NONE", width |-> 0, mask |-> 0]
    /\ kout = Returned(<<>>)

IdleVCD ==
    /\ signals = <<>>
    /\ updated = FALSE
    /\ timeval = 1
    /\ emitted = <<>>
    /\ vhist = <<>>

IdleRest ==
    /\ multi = <<>>
    /\ bits = <<>>
    /\ tlp = <<>>
    /\ header = <<>>

NoLoop == [mode |-> "decode", gen |-> "none", errors |-> 0, yielded |-> 0]

NextSample(v) == [timestamp |-> TimestampOf(nsamples + 1), v |-> v]

\* The effect of one decode(sample) call on the decoder and on the observer.
Called(smp) ==
    \E o \in {AXIStreamDecode(cfg, DecoderState, smp)} :
        /\ lastvalues' = o.lastvalues
        /\ packet' = o.packet
        /\ beats' = o.beats
        /\ backpreasure' = o.backpreasure
        /\ result' = o.result
        /\ sample' = smp
        /\ nsamples' = nsamples + 1
        /\ hist' = HistAfter(hist, cfg, smp, o.result.kind)

Decode ==
    /\ nsamples < MaxSamples
    /\ \E v \in SampleValues(cfg) : Called(NextSample(v))
    /\ UNCHANGED <<cfg, loop, keepvars, vcdvars, restvars>>

IdleDecoder == InitDecoder({[last |-> FALSE, keep |-> FALSE, clk |-> FALSE,
                              keep_mode |-> "SHIFT", width |-> 4, unbound |-> {}]})

Init == InitDecoder(Configs) /\ loop = NoLoop /\ IdleKeep /\ IdleVCD /\ IdleRest

Next == Decode

Spec == Init /\ [][Next]_vars

(***************************************************************************)
(* Decoders one of whose required roles matched no signal:                 *)
(* __create_signals leaves names[role] at None and sets no attribute.      *)
(***************************************************************************)
UnboundConfigs ==
    { [last |-> l, keep |-> FALSE, clk |-> FALSE, keep_mode |-> "SHIFT", width |-> 4,
       unbound |-> {role}] : l \in BOOLEAN, role \in {"valid", "ready", "data"} }

InitUnbound == InitDecoder(UnboundConfigs) /\ loop = NoLoop /\ IdleKeep /\ IdleVCD /\ IdleRest

SpecUnbound == InitUnbound /\ [][Next]_vars

(***************************************************************************)
(* Packet iteration (WaveDecoder.__iter__) and the driver loop             *)
(* (wavedecoder.py).                                                       *)
(***************************************************************************)
\* def decode(self, sample): the parameters after self
DecodeParams == 1

\* packet = decoder.decode(sample, lastsample): the arguments passed
DriverCallArgs == 2

IsException(kind) == kind \in {"StreamError", "AssertionError", "TypeError",
                               "NotImplementedError", "AttributeError"}

\* One round of `for sample in self.waveinput: temp = self.decode(sample)`:
\* a Packet is yielded, a falsy result continues, and an exception leaves
\* the generator, which is finished from then on.
IterDecode ==
    /\ loop.mode = "iter"
    /\ loop.gen = "running"
    /\ nsamples < MaxSamples
    /\ \E v \in SampleValues(cfg) : Called(NextSample(v))
    /\ loop' = [loop EXCEPT
                  !.gen = IF IsException(result'.kind) THEN "finished" ELSE @,
                  !.yielded = IF result'.kind = "Packet" THEN @ + 1 ELSE @]
    /\ UNCHANGED <<cfg, keepvars, vcdvars, restvars>>

\* A Sample of the trace behind a finished generator: nobody decodes it.
IterUnread ==
    /\ loop.mode = "iter"
    /\ loop.gen = "finished"
    /\ nsamples < MaxSamples
    /\ \E v \in SampleValues(cfg) :
          /\ sample' = NextSample(v)
          /\ hist' = HistAfter(hist, cfg, NextSample(v), "unread")
    /\ result' = [kind |-> "unread", pkt |-> <<>>]
    /\ nsamples' = nsamples + 1
    /\ UNCHANGED <<cfg, lastvalues, packet, beats, backpreasure, loop, keepvars, vcdvars, restvars>>

\* One round of the driver's `for decoder in decoders.values()` body for an
\* AXIStream decoder: the call passes DriverCallArgs arguments to a method
\* of DecodeParams parameters; `except Exception` counts the error and
\* continues with the next Sample.
DriverDecode ==
    /\ loop.mode = "driver"
    /\ nsamples < MaxSamples
    /\ \E v \in SampleValues(cfg) :
          IF DriverCallArgs # DecodeParams
          THEN /\ sample' = NextSample(v)
               /\ hist' = HistAfter(hist, cfg, NextSample(v), "TypeError")
               /\ result' = [kind |-> "TypeError", pkt |-> <<>>]
               /\ nsamples' = nsamples + 1
               /\ UNCHANGED <<lastvalues, packet, beats, backpreasure>>
          ELSE Called(NextSample(v))
    /\ loop' = [loop EXCEPT
                  !.errors = IF IsException(result'.kind) THEN @ + 1 ELSE @]
    /\ UNCHANGED <<cfg, keepvars, vcdvars, restvars>>

\* Decoders without keep and clk roles, with and without last.
LoopConfigs == { c \in Configs : ~c.keep /\ ~c.clk /\ c.keep_mode = "SHIFT" }

InitLoop ==
    /\ InitDecoder(LoopConfigs)
    /\ loop \in { [mode |-> "iter", gen |-> "running", errors |-> 0, yielded |-> 0],
                  [mode |-> "driver", gen |-> "none", errors |-> 0, yielded |-> 0] }
    /\ IdleKeep
    /\ IdleVCD
    /\ IdleRest

NextLoop == IterDecode \/ IterUnread \/ DriverDecode

SpecLoop == InitLoop /\ [][NextLoop]_vars

(***************************************************************************)
(* _normalize_keep as a function of its inputs.                            *)
(***************************************************************************)
\* Qualifier masks tried for a bus of `width` byte lanes.
KeepMasks(width) ==
    IF width <= 8 THEN 0..(Pow2(width) - 1)
    ELSE { 256 * hi + lo : hi \in {0, 129, 240, 255}, lo \in {0, 15, 129, 255} }

KeepInputs ==
    UNION { { [data |-> d.s, keep |-> SignalValue(w, m), mode |-> md, width |-> w, mask |-> m]
                : d \in DataWords(w), m \in KeepMasks(w), md \in KeepModes }
            : w \in {1, 4, 8, 16} }

Pending == [err |-> "pending", out |-> <<>>]

InitKeep ==
    /\ IdleDecoder /\ loop = NoLoop /\ IdleVCD /\ IdleRest
    /\ kin \in KeepInputs
    /\ kout = Pending

Normalize ==
    /\ kout = Pending
    /\ kout' = NormalizeKeep(kin.data, kin.keep, kin.mode)
    /\ UNCHANGED <<decvars, kin, vcdvars, restvars>>

NextKeep == Normalize

SpecKeep == InitKeep /\ [][NextKeep]_vars

(***************************************************************************)
(* Signal (wave.py)                                                        *)
(***************************************************************************)
\* a | (1 << index) and a & ~(1 << index) on the number the bytes spell
\* Adding 1 << index where the code ORs it in.
OrBitAdds(m, index) == m + Pow2(index)

OrBit(m, index) == IF BitSet(m, index) THEN m ELSE m + Pow2(index)
ClearBit(m, index) == IF BitSet(m, index) THEN m - Pow2(index) ELSE m

\* Signal.set_bit / Signal.clr_bit on a bytes value
SetBit(a, index) == PyBytes(ToBytes(OrBit(FromBytes(a.s), index), Len(a.s)))
ClrBit(a, index) == PyBytes(ToBytes(ClearBit(FromBytes(a.s), index), Len(a.s)))

HandleIds(sig) == { sig.handle[i] : i \in DOMAIN sig.handle }

\* Signal.set(handle, value) with the int level the VCD reader passes:
\* the new Signal and the value returned.
SignalSet(sig, handle, value) ==
    IF handle \notin HandleIds(sig) THEN [ret |-> FALSE, sig |-> sig]
    ELSE IF Cardinality(DOMAIN sig.handle) = 1 /\ ~(sig.length = 1)
    THEN \* one signal without subsignals: value is no str, self.value = value
         [ret |-> TRUE, sig |-> [sig EXCEPT !.value = PyInt(value)]]
    ELSE LET index == CHOOSE i \in DOMAIN sig.handle : sig.handle[i] = handle
             new == IF sig.value.t = "bool" THEN PyBool(value # 0)
                    ELSE IF value # 0 THEN SetBit(sig.value, index)
                    ELSE ClrBit(sig.value, index)
         IN  [ret |-> TRUE, sig |-> [sig EXCEPT !.value = new]]

(***************************************************************************)
(* VCDWaveInput (input.py)                                                 *)
(***************************************************************************)
\* The Signal table after _create_signals and _set_init_values for a trace
\* that declares a vector split into two one-bit variables, a scalar and a
\* four-bit vector declared as one variable.  The id "e" belongs to a
\* variable that the filter left out.
DeclaredSignals ==
    << [name |-> "top.vec", length |-> 2, handle |-> (0 :> "a" @@ 1 :> "b")],
       [name |-> "top.sc",  length |-> 1, handle |-> (0 :> "c")],
       [name |-> "top.bus", length |-> 4, handle |-> (0 :> "d")] >>

IdCodes == {"a", "b", "c", "d", "e"}
Levels == {"0", "1", "x", "z"}

\* _set_init_values
SetInitValues(decl) ==
    [i \in 1..Len(decl) |->
        [name |-> decl[i].name, length |-> decl[i].length, handle |-> decl[i].handle,
         value |-> InitValue(decl[i].length)]]

\* timestamp = token.data * self.timeval
\* A unit conversion that divides by the timescale instead of multiplying.
TimestampDivided(tick, tv) == tick \div tv

Timestamp(tick, tv) == tick * tv

\* if value not in ['0', '1']: value = '0'; int(value)
LevelToInt(level) == IF level = "1" THEN 1 ELSE 0

\* for signal in self.signals.values(): if signal.set(handle, v): updated = True; break
RECURSIVE ApplyChange(_, _, _, _)
ApplyChange(sigs, i, handle, v) ==
    IF i > Len(sigs) THEN [hit |-> FALSE, sigs |-> sigs]
    ELSE LET r == SignalSet(sigs[i], handle, v)
         IN  IF r.ret THEN [hit |-> TRUE, sigs |-> [sigs EXCEPT ![i] = r.sig]]
             ELSE ApplyChange(sigs, i + 1, handle, v)

VHistInit ==
    [ntokens   |-> 0,       \* tokens read in the streaming phase
     tick      |-> -1,      \* the latest time-advance value, -1 before the first
     strict    |-> TRUE,    \* every time-advance value so far exceeded the one before
     altered   |-> FALSE,   \* a change event altered a Signal value since the last Sample
     unaltered |-> FALSE,   \* some Sample was emitted with no value altered before it
     ended     |-> FALSE]   \* the token iterator is exhausted

IdleLoopAndKeep == IdleDecoder /\ loop = NoLoop /\ IdleKeep /\ IdleRest

InitVCD ==
    /\ IdleLoopAndKeep
    /\ signals = SetInitValues(DeclaredSignals)
    /\ updated = FALSE
    /\ timeval \in {1, 10}
    /\ emitted = <<>>
    /\ vhist = VHistInit

\* token.kind is TokenKind.CHANGE_TIME
ChangeTime ==
    /\ ~vhist.ended
    /\ vhist.ntokens < MaxTokens
    /\ \E tick \in (IF vhist.tick < 0 THEN 0 ELSE vhist.tick)..MaxTick :
          /\ emitted' = IF updated THEN Append(emitted, Timestamp(tick, timeval))
                        ELSE emitted
          /\ vhist' = [vhist EXCEPT !.ntokens = @ + 1,
                                    !.tick = tick,
                                    !.strict = @ /\ tick > vhist.tick,
                                    !.altered = IF updated THEN FALSE ELSE @,
                                    !.unaltered = @ \/ (updated /\ ~vhist.altered)]
    /\ updated' = FALSE
    /\ UNCHANGED <<decvars, keepvars, restvars, signals, timeval>>

\* token.kind is TokenKind.CHANGE_SCALAR
ChangeScalar ==
    /\ ~vhist.ended
    /\ vhist.ntokens < MaxTokens
    /\ \E handle \in IdCodes, level \in Levels :
          \E r \in {ApplyChange(signals, 1, handle, LevelToInt(level))} :
              /\ signals' = r.sigs
              /\ updated' = (updated \/ r.hit)
              /\ vhist' = [vhist EXCEPT !.ntokens = @ + 1,
                                        !.altered = @ \/ (r.sigs # signals)]
    /\ UNCHANGED <<decvars, keepvars, restvars, timeval, emitted>>

\* COMMENT and every other token kind: printed, nothing else.
OtherToken ==
    /\ ~vhist.ended
    /\ vhist.ntokens < MaxTokens
    /\ vhist' = [vhist EXCEPT !.ntokens = @ + 1]
    /\ UNCHANGED <<decvars, keepvars, restvars, signals, updated, timeval, emitted>>

\* The token loop is exhausted: the generator returns, yielding nothing more.
EndOfTrace ==
    /\ ~vhist.ended
    /\ vhist' = [vhist EXCEPT !.ended = TRUE]
    /\ UNCHANGED <<decvars, keepvars, restvars, signals, updated, timeval, emitted>>

NextVCD == ChangeTime \/ ChangeScalar \/ OtherToken \/ EndOfTrace

SpecVCD == InitVCD /\ [][NextVCD]_vars

(***************************************************************************)
(* Several decoders on one wave input (wavedecoder.py): for every Sample   *)
(* each decoder's decode is called inside try/except, so that an exception *)
(* ends that decoder's turn only.  The decoders read the same bus; one     *)
(* binds the clk role and the other does not, and they differ in the last  *)
(* role.  Beside the decoders driven together the model keeps, for each of *)
(* them, a decoder of the same configuration that is driven alone.         *)
(***************************************************************************)
\* for name, key in self.names.items(): values[name] = the signal's value or None
ValuesFor(c, sig) ==
    [valid |-> sig.valid,
     ready |-> sig.ready,
     last  |-> IF c.last THEN sig.last ELSE PyNone,
     data  |-> sig.data,
     keep  |-> PyNone,
     clk   |-> IF c.clk THEN sig.clk ELSE PyNone]

\* The values of the bus signals in one Sample (one data word; last is idle
\* while valid is low).
BusValues ==
    { g \in [valid : {PyBool(TRUE), PyBool(FALSE)},
             ready : {PyBool(TRUE), PyBool(FALSE)},
             last  : {PyBool(TRUE), PyBool(FALSE)},
             data  : {PyBytes([i \in 1..4 |-> i])},
             clk   : {PyBool(TRUE), PyBool(FALSE)}] :
        g.valid = PyBool(FALSE) => g.last = PyBool(FALSE) }

MultiConfig(l, k) == [last |-> l, keep |-> FALSE, clk |-> k, keep_mode |-> "SHIFT",
                      width |-> 4, unbound |-> {}]

MultiConfigs == { <<MultiConfig(l, FALSE), MultiConfig(~l, TRUE)>> : l \in BOOLEAN }

Decoders == {1, 2}

FreshDecoder == [lastvalues |-> <<>>, packet |-> <<>>, beats |-> 0, backpreasure |-> 0]

\* decoder.decode(...) with nargs arguments after self
DecodeCall(nargs, c, d, smp) ==
    IF nargs # DecodeParams THEN Outcome(d, "TypeError", <<>>)
    ELSE AXIStreamDecode(c, d, smp)

StateOf(o) == [lastvalues |-> o.lastvalues, packet |-> o.packet, beats |-> o.beats,
               backpreasure |-> o.backpreasure]

\* except Exception: ...; continue -- the decoders still to be driven on this
\* Sample after decoder i raised.  In the variant the Sample is given up.
AfterExceptionBreak(pending, i) == {}

AfterException(pending, i) == pending \ {i}

InitMulti ==
    /\ IdleDecoder /\ loop = NoLoop /\ IdleKeep /\ IdleVCD
    /\ bits = <<>>
    /\ tlp = <<>>
    /\ header = <<>>
    /\ \E cs \in MultiConfigs, na \in {DecodeParams, DriverCallArgs} :
          multi = [cfgs |-> cs, nargs |-> na,
                   decs |-> [i \in Decoders |-> FreshDecoder],
                   outs |-> [i \in Decoders |-> <<>>],
                   solo |-> [i \in Decoders |-> FreshDecoder],
                   solouts |-> [i \in Decoders |-> <<>>],
                   n |-> 0, cur |-> NoSample, pending |-> {}, driven |-> 0]

\* for sample in wave: the next Sample arrives; each decoder driven alone
\* decodes it right away.
TakeSample ==
    /\ multi.n < MaxSamples
    /\ multi.pending = {}
    /\ \E g \in BusValues :
          LET smp(i) == [timestamp |-> TimestampOf(multi.n + 1),
                         v |-> ValuesFor(multi.cfgs[i], g)]
              alone(i) == DecodeCall(multi.nargs, multi.cfgs[i], multi.solo[i], smp(i))
          IN  multi' = [multi EXCEPT
                          !.n = @ + 1,
                          !.cur = [timestamp |-> TimestampOf(multi.n + 1), v |-> g],
                          !.pending = Decoders,
                          !.driven = 0,
                          !.solo = [i \in Decoders |-> StateOf(alone(i))],
                          !.solouts = [i \in Decoders |->
                                          Append(multi.solouts[i], alone(i).result)]]
    /\ UNCHANGED <<decvars, keepvars, vcdvars, bits, tlp, header>>

\* One turn of `for decoder in decoders.values()`, the decoders taken in any
\* order.
DriveDecoder ==
    /\ \E i \in multi.pending :
          \E o \in {DecodeCall(multi.nargs, multi.cfgs[i], multi.decs[i],
                               [timestamp |-> multi.cur.timestamp,
                                v |-> ValuesFor(multi.cfgs[i], multi.cur.v)])} :
              multi' = [multi EXCEPT
                          !.decs[i] = StateOf(o),
                          !.outs[i] = Append(@, o.result),
                          !.driven = i,
                          !.pending = IF IsException(o.result.kind)
                                      THEN AfterException(multi.pending, i)
                                      ELSE multi.pending \ {i}]
    /\ UNCHANGED <<decvars, keepvars, vcdvars, bits, tlp, header>>

NextMulti == TakeSample \/ DriveDecoder

SpecMulti == InitMulti /\ [][NextMulti]_vars

(***************************************************************************)
(* Signal.set on a vector declared one variable per bit: a change of bit   *)
(* index to 1 and then to 0, from every value of the vector.               *)
(***************************************************************************)
\* Bit widths tried: within one byte, and a second byte in use.
BitLengths == {2, 3, 9}

\* A Signal merged from `length` one-bit variables; the id code of bit i is i.
SplitSignal(length, m) ==
    [name |-> "top.vec", length |-> length, handle |-> [i \in 0..(length - 1) |-> i],
     value |-> SignalValue(length, m)]

InitBits ==
    /\ IdleDecoder /\ loop = NoLoop /\ IdleKeep /\ IdleVCD
    /\ multi = <<>>
    /\ tlp = <<>>
    /\ header = <<>>
    /\ \E length \in BitLengths :
          \E m \in 0..(Pow2(length) - 1), index \in 0..(length - 1) :
              bits = [sig |-> SplitSignal(length, m), m |-> m, index |-> index,
                      stage |-> "start", ret |-> FALSE]

\* signal.set(handle, 1) for the id code of bit index
SetOne ==
    /\ bits.stage = "start"
    /\ \E r \in {SignalSet(bits.sig, bits.sig.handle[bits.index], 1)} :
          bits' = [bits EXCEPT !.sig = r.sig, !.ret = r.ret, !.stage = "set"]
    /\ UNCHANGED <<decvars, keepvars, vcdvars, multi, tlp, header>>

\* signal.set(handle, 0) for the same id code
SetZero ==
    /\ bits.stage = "set"
    /\ \E r \in {SignalSet(bits.sig, bits.sig.handle[bits.index], 0)} :
          bits' = [bits EXCEPT !.sig = r.sig, !.ret = r.ret, !.stage = "cleared"]
    /\ UNCHANGED <<decvars, keepvars, vcdvars, multi, tlp, header>>

NextBits == SetOne \/ SetZero

SpecBits == InitBits /\ [][NextBits]_vars

(***************************************************************************)
(* AvalonStream (decoder.py), driven by the packet iteration and by the    *)
(* driver loop.                                                            *)
(***************************************************************************)
\* def decode(self, sample, lastsample): the parameters after self
AvalonDecodeParams == 2

\* temp = self.decode(sample): the arguments WaveDecoder.__iter__ passes
IterCallArgs == 1

\* def handshake_decode(self, timestamp, values, lastvalues)
HandshakeParams == 3

\* self.handshake_decode(sample.timestamp, valid, ready, data, lastvalid,
\* lastready, lastdata)
AvalonHandshakeArgs == 7

\* The decoder's own configuration: strb is unbound by default, and the
\* decoder has no clk role.
AvalonConfig == [cls |-> "AvalonStream", clk |-> FALSE, strb |-> FALSE, width |-> 4]

\* The values of the signals AvalonStream.decode reads from a Sample.
AvalonValues ==
    [valid : {PyBool(TRUE), PyBool(FALSE)},
     ready : {PyBool(TRUE), PyBool(FALSE)},
     eop   : {PyBool(TRUE), PyBool(FALSE)},
     data  : DataWords(AvalonConfig.width),
     keep  : {PyNone},
     clk   : {PyNone}]

\* AvalonStream.decode called with nargs arguments after self.  lv stands for
\* the values of lastsample.
AvalonStreamDecode(d, smp, lv, nargs) ==
    IF nargs # AvalonDecodeParams THEN Outcome(d, "TypeError", <<>>)
    ELSE IF AvalonHandshakeArgs # HandshakeParams THEN Outcome(d, "TypeError", <<>>)
    ELSE IF HandshakeError(smp.v, lv) # "none" THEN Outcome(d, "StreamError", <<>>)
    ELSE
    LET d2 == [d EXCEPT !.backpreasure = IF Stalled(smp.v) THEN @ + 1 ELSE @]
    IN  IF ~Transfers(smp.v) THEN Outcome(d2, "None", <<>>)
        ELSE LET d3 == [d2 EXCEPT !.beats = @ + 1]
             IN  IF d3.packet = <<>>
                 THEN \* keep_mode=self.keep_mode: AvalonStream has no such attribute
                      Outcome(d3, "AttributeError", <<>>)
                 ELSE LET p == PacketAdd(d3.packet[1], smp.v.data, smp.timestamp)
                      IN  IF Truthy(smp.v.eop)
                          THEN Outcome([d3 EXCEPT !.beats = 0, !.backpreasure = 0,
                                                  !.packet = <<>>],
                                       "Packet",
                                       <<[p EXCEPT !.beats = d3.beats,
                                                   !.backpreasure = d3.backpreasure]>>)
                          ELSE Outcome([d3 EXCEPT !.packet = <<p>>], "None", <<>>)

\* if not lastsample: lastsample = sample -- the values of lastsample
LastSampleValues(smp) == IF nsamples = 0 THEN smp.v ELSE sample.v

AvalonCalled(smp, nargs) ==
    \E o \in {AvalonStreamDecode(DecoderState, smp, LastSampleValues(smp), nargs)} :
        /\ lastvalues' = o.lastvalues
        /\ packet' = o.packet
        /\ beats' = o.beats
        /\ backpreasure' = o.backpreasure
        /\ result' = o.result
        /\ sample' = smp
        /\ nsamples' = nsamples + 1
        /\ hist' = HistAfter(hist, cfg, smp, o.result.kind)

\* WaveDecoder.__iter__ over an AvalonStream decoder
AvalonIterDecode ==
    /\ loop.mode = "iter"
    /\ loop.gen = "running"
    /\ nsamples < MaxSamples
    /\ \E v \in AvalonValues : AvalonCalled(NextSample(v), IterCallArgs)
    /\ loop' = [loop EXCEPT
                  !.gen = IF IsException(result'.kind) THEN "finished" ELSE @,
                  !.yielded = IF result'.kind = "Packet" THEN @ + 1 ELSE @]
    /\ UNCHANGED <<cfg, keepvars, vcdvars, restvars>>

\* A Sample of the trace behind a finished generator.
AvalonIterUnread ==
    /\ loop.mode = "iter"
    /\ loop.gen = "finished"
    /\ nsamples < MaxSamples
    /\ \E v \in AvalonValues :
          /\ sample' = NextSample(v)
          /\ hist' = HistAfter(hist, cfg, NextSample(v), "unread")
    /\ result' = [kind |-> "unread", pkt |-> <<>>]
    /\ nsamples' = nsamples + 1
    /\ UNCHANGED <<cfg, lastvalues, packet, beats, backpreasure, loop, keepvars, vcdvars,
                   restvars>>

\* The driver loop's decoder.decode(sample, lastsample) for an AvalonStream
AvalonDriverDecode ==
    /\ loop.mode = "driver"
    /\ nsamples < MaxSamples
    /\ \E v \in AvalonValues : AvalonCalled(NextSample(v), DriverCallArgs)
    /\ loop' = [loop EXCEPT
                  !.errors = IF IsException(result'.kind) THEN @ + 1 ELSE @]
    /\ UNCHANGED <<cfg, keepvars, vcdvars, restvars>>

InitAvalon ==
    /\ InitDecoder({AvalonConfig})
    /\ loop \in { [mode |-> "iter", gen |-> "running", errors |-> 0, yielded |-> 0],
                  [mode |-> "driver", gen |-> "none", errors |-> 0, yielded |-> 0] }
    /\ IdleKeep
    /\ IdleVCD
    /\ IdleRest

NextAvalon == AvalonIterDecode \/ AvalonIterUnread \/ AvalonDriverDecode

SpecAvalon == InitAvalon /\ [][NextAvalon]_vars

(***************************************************************************)
(* TLPAXIStreamAgilex5E (protocol.py): the TLP overlay built from a sealed *)
(* AXISPacket.  The header codec (Tlp) is not part of the sources at hand; *)
(* it is modelled as the spec describes it: it accepts a 16-byte header    *)
(* buffer, and whether it takes a given header and payload is its own      *)
(* decision, here an input.                                                *)
(***************************************************************************)
\* q[a:b] for 0 <= a, 0 <= b: out-of-range bounds are clipped, never an error
Slice(q, a, b) ==
    LET hi == IF b < Len(q) THEN b ELSE Len(q)
    IN  IF a < hi THEN SubSeq(q, a + 1, hi) ELSE <<>>

\* for i in range(16, 0, -4): hdr += temphdr[i-4:i]
RECURSIVE SwapDoubleWords(_, _)
SwapDoubleWords(temphdr, i) ==
    IF i <= 0 THEN <<>>
    ELSE Slice(temphdr, i - 4, i) \o SwapDoubleWords(temphdr, i - 4)

HeaderLength == 16

\* Tlp().unpack_header(hdr) followed by set_data(data): the codec's verdict
\* says what it does with a buffer of HeaderLength bytes.
UnpackHeader(hdr, data, verdict) ==
    IF Len(hdr) # HeaderLength THEN [err |-> "struct.error", tlp |-> PyNone]
    ELSE IF verdict = "malformed" THEN [err |-> "ValueError", tlp |-> PyNone]
    ELSE IF verdict = "payload" THEN [err |-> "ValueError", tlp |-> PyNone]
    ELSE [err |-> "none", tlp |-> [t |-> "Tlp", hdr |-> hdr, data |-> data]]

\* The same without try/except: what the codec raises leaves the constructor.
Unguarded(attempt) == [raised |-> attempt.err, tlp |-> attempt.tlp]

\* try: self.tlp = ...; except: self.tlp = None
Guarded(attempt) ==
    IF attempt.err # "none" THEN [raised |-> "none", tlp |-> PyNone]
    ELSE [raised |-> "none", tlp |-> attempt.tlp]

\* TLPAXIStreamAgilex5E.__init__(packet)
TLPInit(normdata, datawidth, verdict) ==
    LET dw == datawidth \div 8
        firstbeat == Slice(normdata, 0, dw)
        temphdr == Slice(firstbeat, 16, dw)
        data == Slice(normdata, dw, Len(normdata))
        hdr == SwapDoubleWords(temphdr, 16)
        built == Guarded(UnpackHeader(hdr, data, verdict))
    IN  [raised |-> built.raised, tlp |-> built.tlp, hdr |-> hdr, data |-> data]

\* __repr__
TLPRepr(t) == IF t.t = "None" THEN "Tlp(Invalid)" ELSE "Tlp"

\* Bus widths in bits and lengths of the Packet's normalized data tried.
TLPWidths == {32, 128, 256, 512}
TLPLengths == {0, 3, 16, 20, 32, 40, 64, 70}
Verdicts == {"ok", "malformed", "payload"}

InitTLP ==
    /\ IdleDecoder /\ loop = NoLoop /\ IdleKeep /\ IdleVCD
    /\ multi = <<>>
    /\ bits = <<>>
    /\ header = <<>>
    /\ \E w \in TLPWidths, n \in TLPLengths, verdict \in Verdicts :
          tlp = [normdata |-> [i \in 1..n |-> i], datawidth |-> w, verdict |-> verdict,
                 stage |-> "packet", raised |-> "none", tlp |-> PyNone, hdr |-> <<>>,
                 data |-> <<>>, repr |-> ""]

\* pp = protocol['cls'](packet)
Construct ==
    /\ tlp.stage = "packet"
    /\ \E o \in {TLPInit(tlp.normdata, tlp.datawidth, tlp.verdict)} :
          tlp' = [tlp EXCEPT !.stage = IF o.raised = "none" THEN "built" ELSE "raised",
                             !.raised = o.raised, !.tlp = o.tlp, !.hdr = o.hdr,
                             !.data = o.data]
    /\ UNCHANGED <<decvars, keepvars, vcdvars, multi, bits, header>>

\* info = f"... {pp}"
Render ==
    /\ tlp.stage = "built"
    /\ tlp' = [tlp EXCEPT !.stage = "rendered", !.repr = TLPRepr(tlp.tlp)]
    /\ UNCHANGED <<decvars, keepvars, vcdvars, multi, bits, header>>

NextTLP == Construct \/ Render

SpecTLP == InitTLP /\ [][NextTLP]_vars

(***************************************************************************)
(* The declaration phase of VCDWaveInput: _create_signals (input.py).      *)
(* A string is the sequence of its characters.                             *)
(***************************************************************************)
MaxDecl == 5

\* s.split(sep) for a one-character separator
RECURSIVE SplitAcc(_, _, _)
SplitAcc(s, sep, cur) ==
    IF s = <<>> THEN <<cur>>
    ELSE IF Head(s) = sep THEN <<cur>> \o SplitAcc(Tail(s), sep, <<>>)
    ELSE SplitAcc(Tail(s), sep, Append(cur, Head(s)))

Split(s, sep) == SplitAcc(s, sep, <<>>)

\* sep.join(parts)
RECURSIVE Join(_, _)
Join(sep, parts) ==
    IF parts = <<>> THEN <<>>
    ELSE IF Len(parts) = 1 THEN parts[1]
    ELSE parts[1] \o <<sep>> \o Join(sep, Tail(parts))

\* parts[:-2]
ButLastTwo(parts) == IF Len(parts) > 2 THEN SubSeq(parts, 1, Len(parts) - 2) ELSE <<>>

\* scope = '.'.join(scope.split('.')[:-2]) + '.'
UpScope(scope) == Join(".", ButLastTwo(Split(scope, "."))) \o <<".">>

\* Scope identifiers, variable references, bit indices and id codes of the
\* declarations tried.
ScopeIdents == {<<"a">>, <<"t", "b">>}
References == {<<"x">>, <<"y">>}
BitIndices == {PyNone, PyInt(1)}

\* the VAR branch: a new Signal, or one more bit of a Signal of that name
DeclareVar(sigs, name, idcode, size, bitindex) ==
    LET index == IF Truthy(bitindex) THEN bitindex.n ELSE 0
        known == {i \in 1..Len(sigs) : sigs[i].name = name}
    IN  IF known # {}
        THEN [i \in 1..Len(sigs) |->
                 IF i \in known
                 THEN [sigs[i] EXCEPT !.length = @ + size,
                                      !.handle = (index :> idcode) @@ @]
                 ELSE sigs[i]]
        ELSE Append(sigs, [name |-> name, length |-> size, handle |-> (index :> idcode)])

InitDecl ==
    /\ IdleDecoder /\ loop = NoLoop /\ IdleKeep /\ IdleVCD
    /\ multi = <<>>
    /\ bits = <<>>
    /\ tlp = <<>>
    /\ header = [scope |-> <<>>, signals |-> <<>>, timeval |-> PyNone,
                 done |-> FALSE, ntokens |-> 0,
                 \* observer: the prefix in force before each scope still open,
                 \* and the prefix a close has to bring back
                 saved |-> <<>>, closed |-> <<>>]

Reading == ~header.done /\ header.ntokens < MaxDecl

\* token.kind is TokenKind.SCOPE
ScopeOpen ==
    /\ Reading
    /\ \E ident \in ScopeIdents :
          header' = [header EXCEPT !.scope = @ \o ident \o <<".">>,
                                   !.ntokens = @ + 1,
                                   !.saved = Append(@, header.scope),
                                   !.closed = <<>>]
    /\ UNCHANGED <<decvars, keepvars, vcdvars, multi, bits, tlp>>

\* token.kind is TokenKind.UPSCOPE (the tokenizer reads one for an $upscope
\* of the trace, whatever was opened before)
ScopeClose ==
    /\ Reading
    /\ header' = [header EXCEPT !.scope = UpScope(@),
                                !.ntokens = @ + 1,
                                !.saved = IF @ = <<>> THEN <<>>
                                          ELSE SubSeq(@, 1, Len(@) - 1),
                                !.closed = IF header.saved = <<>> THEN <<>>
                                           ELSE <<header.saved[Len(header.saved)]>>]
    /\ UNCHANGED <<decvars, keepvars, vcdvars, multi, bits, tlp>>

\* token.kind is TokenKind.VAR
Var ==
    /\ Reading
    /\ \E reference \in References, bitindex \in BitIndices :
          header' = [header EXCEPT
                        !.signals = DeclareVar(@, header.scope \o reference,
                                               "a", 1, bitindex),
                        !.ntokens = @ + 1,
                        !.closed = <<>>]
    /\ UNCHANGED <<decvars, keepvars, vcdvars, multi, bits, tlp>>

\* token.kind is TokenKind.TIMESCALE
Timescale ==
    /\ Reading
    /\ \E tv \in {1, 10} :
          header' = [header EXCEPT !.timeval = PyInt(tv), !.ntokens = @ + 1,
                                   !.closed = <<>>]
    /\ UNCHANGED <<decvars, keepvars, vcdvars, multi, bits, tlp>>

\* token.kind is TokenKind.ENDDEFINITIONS
EndDefinitions ==
    /\ Reading
    /\ header' = [header EXCEPT !.done = TRUE, !.ntokens = @ + 1, !.closed = <<>>]
    /\ UNCHANGED <<decvars, keepvars, vcdvars, multi, bits, tlp>>

\* every other token kind: no branch takes it
OtherDeclToken ==
    /\ Reading
    /\ header' = [header EXCEPT !.ntokens = @ + 1, !.closed = <<>>]
    /\ UNCHANGED <<decvars, keepvars, vcdvars, multi, bits, tlp>>

NextDecl == ScopeOpen \/ ScopeClose \/ Var \/ Timescale \/ EndDefinitions \/ OtherDeclToken

SpecDecl == InitDecl /\ [][NextDecl]_vars

(***************************************************************************)
(* Properties of AXIStream.decode, checked under Spec.                     *)
(***************************************************************************)
Pkt == result.pkt[1]

\* C1: for a decoder with no clk and no last role, N samples with valid=1,
\* ready=0 and the same data return no Packet, and a following sample with
\* valid=1, ready=1 and the same data returns a Packet with
\* backpressure_cycles = N and beat_count = 1.
C1_StallThenTransfer ==
    (~cfg.clk /\ ~cfg.last /\ nsamples >= 1) =>
        /\ hist.stall >= 1 => result.kind # "Packet"
        /\ (/\ hist.stallprev >= 0
            /\ Transfers(sample.v)
            /\ (hist.stallprev = 0 \/ sample.v.data = hist.stalldata))
           => /\ result.kind = "Packet"
              /\ Pkt.backpreasure = hist.stallprev
              /\ Pkt.beats = 1

\* C2: a processed sample with valid=1, ready=0 followed by a processed sample
\* with valid=0 makes decode raise StreamError on the second one, and no
\* Packet is returned on it.
C2_ValidDropRaises ==
    (hist.processed /\ hist.prevstall /\ sample.v.valid = PyBool(FALSE)) =>
        result.kind = "StreamError" /\ result.pkt = <<>>

\* C2 witness: valid dropped after a stall while a Packet was open.
C2_Witness ==
    /\ hist.processed /\ hist.prevstall /\ sample.v.valid = PyBool(FALSE)
    /\ result.kind = "StreamError"
    /\ packet # <<>>

\* C3: with last bound and no violation so far, a Packet is returned only on
\* a transferring beat with last asserted, and its beat_count is the number
\* of transferring beats since the previous returned Packet.
C3_SealOnLast ==
    (cfg.last /\ ~hist.violated /\ result.kind = "Packet") =>
        /\ hist.processed
        /\ Transfers(sample.v)
        /\ sample.v.last = PyBool(TRUE)
        /\ Pkt.beats = hist.xfer

\* C3 witness: a Packet of two or more beats sealed by last.
C3_Witness ==
    /\ cfg.last /\ ~hist.violated /\ result.kind = "Packet"
    /\ Pkt.beats >= 2
    /\ Pkt.beats = hist.xfer

\* C4: with no last role every transferring beat returns a Packet of one beat
\* holding exactly that beat's data, and no Packet stays open.
C4_EveryBeatIsAPacket ==
    (~cfg.last /\ nsamples >= 1) =>
        /\ packet = <<>>
        /\ (hist.processed /\ Transfers(sample.v) /\ result.kind # "StreamError")
           => /\ result.kind = "Packet"
              /\ Pkt.beats = 1
              /\ Pkt.data = sample.v.data.s

\* C5: a Packet of two or more transferring beats starts at the timestamp of
\* its first transferring beat and ends at the timestamp of the beat on which
\* last was asserted.
C5_StartAndEndTime ==
    (cfg.last /\ ~hist.violated /\ result.kind = "Packet" /\ hist.xfer >= 2) =>
        /\ PyInt(Pkt.starttime) = hist.xfirst
        /\ Pkt.endtime = PyInt(sample.timestamp)

\* C6: the raw data of a sealed Packet is the data of its transferring beats
\* in arrival order, none prepended, duplicated or dropped.
C6_RawDataInArrivalOrder ==
    (~hist.violated /\ result.kind = "Packet") => Pkt.data = hist.xdata

(***************************************************************************)
(* Properties of the packet iteration and the driver loop (SpecLoop).      *)
(***************************************************************************)
\* C10: after a protocol violation (valid dropped while stalled) a later
\* transaction that completes on a violation-free sample is still produced
\* as a Packet, by the driver loop and by iterating the decoder.
C10_PacketsAfterViolation ==
    (/\ hist.dropped
     /\ hist.processed
     /\ ~hist.prevstall
     /\ Transfers(sample.v)
     /\ Terminates(sample.v))
    => result.kind = "Packet"

(***************************************************************************)
(* Properties of _normalize_keep (SpecKeep).                               *)
(***************************************************************************)
\* The bytes of q whose lane bit is set in mask, in order; byte i of n (from
\* the most significant) is lane n - i.
RECURSIVE KeptBytes(_, _, _)
KeptBytes(q, mask, i) ==
    IF i > Len(q) THEN <<>>
    ELSE (IF BitSet(mask, Len(q) - i) THEN <<q[i]>> ELSE <<>>) \o KeptBytes(q, mask, i + 1)

\* C7: for every data width B, 4 included, SHIFT compaction returns exactly
\* the data bytes whose qualifier bit is set, in their original order.
C7_ShiftKeepsQualifiedBytes ==
    (kout # Pending /\ kin.mode = "SHIFT") =>
        kout.err = "none" /\ kout.out = KeptBytes(kin.data, kin.mask, 1)

(***************************************************************************)
(* Properties of the VCD Sample iteration (SpecVCD).                       *)
(***************************************************************************)
StrictlyIncreasing(q) == \A i, j \in 1..Len(q) : i < j => q[i] < q[j]
NonDecreasing(q) == \A i, j \in 1..Len(q) : i < j => q[i] <= q[j]

\* C8 as stated: whenever the time values do not decrease, the timestamps of
\* the emitted Samples are strictly increasing.
C8_StrictTimestamps == StrictlyIncreasing(emitted)

\* C8 amended: the timestamps of the emitted Samples never decrease, and they
\* are strictly increasing when the time values of the trace are.
C8_MonotoneTimestamps ==
    /\ NonDecreasing(emitted)
    /\ vhist.strict => StrictlyIncreasing(emitted)

\* C8 witness: two Samples emitted from a trace with strictly increasing times.
C8_Witness == vhist.strict /\ Len(emitted) >= 2 /\ emitted[1] < emitted[2]

\* C9: a Sample is emitted only if a change event altered the value of a
\* tracked Signal since the previously emitted Sample.
C9_SampleOnlyAfterChange == ~vhist.unaltered

C12_SetThenClearRestores ==
    bits.stage = "cleared" => bits.sig.value = SignalValue(bits.sig.length, bits.m)

\* C12 amended: after setting bit i and then clearing it the value has the
\* same number of bytes, bit i is clear and every other bit is as before; so
\* the value is the prior one exactly when bit i was clear before the set.
C12_SetThenClearClearsBit ==
    bits.stage = "cleared" =>
        /\ bits.sig.value.t = "bytes"
        /\ Len(bits.sig.value.s) = (bits.sig.length + 7) \div 8
        /\ \A k \in 0..(8 * Len(bits.sig.value.s) - 1) :
              BitSet(FromBytes(bits.sig.value.s), k) = (k # bits.index /\ BitSet(bits.m, k))
        /\ (bits.sig.value = SignalValue(bits.sig.length, bits.m)) = ~BitSet(bits.m, bits.index)

\* C12 witness: bit 8 of a nine-bit vector, clear before, set and cleared
\* again with the low byte untouched.
C12_Witness ==
    /\ bits # <<>>
    /\ bits.stage = "cleared"
    /\ bits.sig.length = 9 /\ bits.index = 8 /\ bits.m = 165
    /\ bits.sig.value = PyBytes(<<0, 165>>)

(***************************************************************************)
(* Properties of the tracked Signal values (SpecVCD).                      *)
(***************************************************************************)
\* C13: after initialization and after any sequence of change events, every
\* tracked Signal's value is a boolean if its bit width is 1 and otherwise a
\* byte sequence of exactly ceil(bit_width / 8) bytes.
C13_ValueShape ==
    \A i \in 1..Len(signals) :
        IF signals[i].length = 1 THEN signals[i].value.t = "bool"
        ELSE /\ signals[i].value.t = "bytes"
             /\ 8 * Len(signals[i].value.s) >= signals[i].length
             /\ 8 * (Len(signals[i].value.s) - 1) < signals[i].length

(***************************************************************************)
(* Properties of the AvalonStream decoder (SpecAvalon).                    *)
(***************************************************************************)
\* C14: for an AvalonStream decoder driven like the other decoders, a Packet
\* is returned exactly on the transferring beats on which eop is asserted
\* (the handshake validation passing), and its beat_count is the number of
\* transferring beats since the previous returned Packet.
C14_AvalonSealsOnEop ==
    (nsamples >= 1 /\ ~hist.prevstall) =>
        /\ (result.kind = "Packet") = (Transfers(sample.v) /\ Truthy(sample.v.eop))
        /\ result.kind = "Packet" => Pkt.beats = hist.xfer

\* C15: for an AvalonStream decoder, a sample on which eop is asserted while
\* the decoder has no open Packet and no beat transfers raises a
\* protocol-violation error.
C15_AvalonEopWithoutPacket ==
    (nsamples >= 1 /\ packet = <<>> /\ Truthy(sample.v.eop) /\ ~Transfers(sample.v)) =>
        result.kind = "StreamError"

(***************************************************************************)
(* Properties of the TLP overlay (SpecTLP).                                *)
(***************************************************************************)
\* The bytes of the first beat that lie behind its first 16: what the
\* constructor has to build the header from.
HeaderBytesAtHand ==
    LET dw == tlp.datawidth \div 8
        beat == IF Len(tlp.normdata) < dw THEN Len(tlp.normdata) ELSE dw
    IN  IF beat > 16 THEN beat - 16 ELSE 0

\* C16: constructing the overlay from a sealed Packet never lets an exception
\* out; when the codec rejects the header or the first beat is too short to
\* hold a 16-byte header, construction completes and the overlay reports the
\* invalid result.
C16_OverlayNeverRaises ==
    /\ tlp # <<>> => tlp.stage # "raised"
    /\ (tlp # <<>> /\ tlp.stage = "rendered") =>
          /\ tlp.raised = "none"
          /\ (HeaderBytesAtHand < HeaderLength \/ tlp.verdict # "ok")
                => tlp.repr = "Tlp(Invalid)"

\* C16 witness: a 32-bit bus, whose first beat cannot hold a header, gave an
\* overlay that renders as invalid.
C16_Witness ==
    /\ tlp # <<>>
    /\ tlp.stage = "rendered"
    /\ tlp.datawidth = 32 /\ Len(tlp.normdata) = 20 /\ tlp.verdict = "ok"
    /\ tlp.repr = "Tlp(Invalid)"

(***************************************************************************)
(* Properties of the configuration errors (Spec, SpecUnbound).             *)
(***************************************************************************)
\* C17: an AXIStream decoder configured with keep_mode MASK raises an error
\* on the first beat it transfers at the latest, whether the keep role is
\* bound or not and whatever the qualifier value is (construction raises
\* nothing, and a handshake violation comes before the transfer).
C17_MaskIsFatal ==
    (/\ cfg.keep_mode = "MASK"
     /\ hist.processed
     /\ Transfers(sample.v)
     /\ result.kind # "StreamError")
    => result.kind = "NotImplementedError"

\* C18: a decoder one of whose required roles (valid, ready, data) matched no
\* signal fails with an error on the first sample it decodes at the latest
\* (construction raises nothing).
C18_UnboundRoleIsFatal ==
    (cfg.unbound # {} /\ nsamples = 1) => IsException(result.kind)

(***************************************************************************)
(* Properties of the handshake (Spec).                                     *)
(***************************************************************************)
\* The payload of the current sample differs from the one held since the
\* previous processed sample: other data, or another keep with keep present
\* in both.
PayloadChanged ==
    \/ sample.v.data # hist.prevheld.data
    \/ /\ hist.prevheld.keep # PyNone
       /\ sample.v.keep # PyNone
       /\ sample.v.keep # hist.prevheld.keep

\* The premise of C19: the previous processed sample had valid=1 and ready=0
\* and the current sample is processed and has valid=1.
StillValidAfterStall ==
    /\ hist.processed
    /\ hist.prevheld # PyNone
    /\ sample.v.valid = PyBool(TRUE)

\* C19: under that premise decode raises a protocol-violation error
\* (StreamError) exactly when the data differs from the held data, or the
\* keep value differs from the held keep value with keep present in both;
\* when data and keep are unchanged no such error is raised.
C19_StallHoldsPayload ==
    StillValidAfterStall => (result.kind = "StreamError") = PayloadChanged

\* C19 witness: after a stall the data is the same and only the keep value
\* differs, and decode raised StreamError.
C19_Witness ==
    /\ StillValidAfterStall
    /\ sample.v.data = hist.prevheld.data
    /\ sample.v.keep # hist.prevheld.keep
    /\ result.kind = "StreamError"

\* What the latest decode step did, seen from outside: the sample's levels,
\* and the counters and the Packet before and after.
ValidAndReady == sample'.v.valid = PyBool(TRUE) /\ sample'.v.ready = PyBool(TRUE)
ValidNotReady == sample'.v.valid = PyBool(TRUE) /\ sample'.v.ready = PyBool(FALSE)

DataBefore == IF packet = <<>> THEN <<>> ELSE packet[1].data

BeatCounted ==
    \/ beats' = beats + 1
    \/ result'.kind = "Packet" /\ result'.pkt[1].beats = beats + 1

DataJoined ==
    \/ packet' # <<>> /\ packet'[1].data = DataBefore \o sample'.v.data.s
    \/ result'.kind = "Packet" /\ result'.pkt[1].data = DataBefore \o sample'.v.data.s

NothingTransferred == beats' = beats /\ packet' = packet /\ result'.kind # "Packet"

ProcessedStep == nsamples' = nsamples + 1 /\ hist'.processed

HeldValues(lv) ==
    IF lv = <<>> THEN <<>>
    ELSE <<lv[1].valid, lv[1].ready, lv[1].data, lv[1].keep>>

\* C21: with a clk role bound, a sample on which clk is not truthy after
\* having been falsy in the sample before (the very first sample included)
\* returns no Packet and leaves the beat counter, the backpressure counter,
\* the open Packet and the held valid/ready/data/keep values unchanged; so a
\* violation is only ever raised against a previous rising-edge sample that
\* stalled.
C21_SkippedSamplesChangeNothing ==
    [][(cfg.clk /\ nsamples' = nsamples + 1) =>
          /\ ~hist'.processed =>
                /\ result'.kind = "None"
                /\ beats' = beats
                /\ backpreasure' = backpreasure
                /\ packet' = packet
                /\ HeldValues(lastvalues') = HeldValues(lastvalues)
          /\ result'.kind = "StreamError" => hist.laststall]_vars

\* C22: after every decode call a Packet is open if and only if the beat
\* counter is non-zero; a call that returns a Packet has copied the counters
\* into it and leaves both counters at zero and no Packet open; a
\* transferring beat that does not terminate the frame leaves the Packet open.
C22_OpenPacketIffBeats ==
    nsamples >= 1 =>
        /\ (packet # <<>>) = (beats # 0)
        /\ result.kind = "Packet" =>
              /\ beats = 0 /\ backpreasure = 0 /\ packet = <<>>
              /\ Pkt.beats >= 1
        /\ (/\ hist.processed
            /\ sample.v.valid = PyBool(TRUE) /\ sample.v.ready = PyBool(TRUE)
            /\ sample.v.last = PyBool(FALSE)
            /\ result.kind # "StreamError")
           => packet # <<>>

(***************************************************************************)
(* Properties of the Samples the text-trace source emits (SpecVCD).        *)
(***************************************************************************)
\* C23: when a time-advance token moves the current time from T_prev to
\* T_new and a Sample is emitted for the changes since the last one, the
\* Sample carries T_prev scaled by the timescale, not T_new.
C23_SampleCarriesPreviousTime ==
    [][(Len(emitted') = Len(emitted) + 1 /\ vhist.tick >= 0) =>
          emitted'[Len(emitted')] = vhist.tick * timeval]_vars

\* C28: once the trace is read to its end, no change that altered a tracked
\* Signal is left without a Sample emitted after it.
C28_NoChangeLeftAtEnd ==
    vhist.ended => ~vhist.altered

(***************************************************************************)
(* Properties of the header buffer of the TLP overlay (SpecTLP).           *)
(***************************************************************************)
\* C24: for every Packet and every data width, the buffer handed to the
\* header codec is exactly 16 bytes long and holds the four 4-byte words of
\* the header region of the first beat (from byte 16 on) in reversed word
\* order, the bytes inside a word in their order; everything after the first
\* beat is the payload.
C24_HeaderBufferIsSixteenBytes ==
    (tlp # <<>> /\ tlp.stage # "packet") =>
        LET dw == tlp.datawidth \div 8
            n  == Len(tlp.normdata)
        IN  /\ Len(tlp.hdr) = 16
            /\ \A w \in 0..3, k \in 1..4 :
                  tlp.hdr[4 * w + k] = tlp.normdata[16 + 4 * (3 - w) + k]
            /\ tlp.data = [i \in 1..(IF n > dw THEN n - dw ELSE 0) |->
                               tlp.normdata[dw + i]]

(***************************************************************************)
(* Properties of a call that raises a protocol violation (Spec).           *)
(***************************************************************************)
\* C25: a decode call that raises a protocol violation leaves the beat
\* counter, the backpressure counter and the open Packet as they were before
\* the call and replaces the held previous-sample values by the violating
\* sample's values; a next sample that repeats the violating sample's values
\* does not raise a violation again.
C25_ViolationKeepsFrame ==
    [][nsamples' = nsamples + 1 =>
          /\ result'.kind = "StreamError" =>
                /\ beats' = beats
                /\ backpreasure' = backpreasure
                /\ packet' = packet
                /\ lastvalues' = <<sample'.v>>
          /\ (result.kind = "StreamError" /\ sample'.v = sample.v) =>
                result'.kind # "StreamError"]_vars

\* C25 witness: a violation was raised while a Packet of one beat was open
\* and one backpressure cycle was counted; the Packet and the counters are
\* still there, and the held values are those of the violating sample.
C25_Witness ==
    /\ result.kind = "StreamError"
    /\ packet # <<>> /\ Len(packet[1].data) >= 1
    /\ beats = 1 /\ backpreasure = 1
    /\ lastvalues = <<sample.v>>
    /\ ~cfg.clk /\ cfg.last

(***************************************************************************)
(* Properties of the end time of a returned Packet (Spec).                 *)
(***************************************************************************)
\* C26: every Packet decode returns, a Packet of a single beat included, has
\* end_time equal to the timestamp of the sample of the beat that sealed it;
\* end_time is never left unset.
C26_EndTimeIsSealingTime ==
    result.kind = "Packet" => Pkt.endtime = PyInt(sample.timestamp)

(***************************************************************************)
(* Properties of the scope prefix in the declaration phase (SpecDecl).     *)
(***************************************************************************)
\* C27: a scope-close token restores the scope prefix to exactly what it was
\* before the matching scope-open, at every nesting depth, the top level
\* included.
C27_CloseRestoresPrefix ==
    (header # <<>> /\ header.closed # <<>>) => header.scope = header.closed[1]

====
